---- MODULE Spec2Model ----
(***************************************************************************)
(* Route optimisation core of stage6_route_optimization.py: elevation-gain *)
(* derivation, min-max normalisation, ROC composite weighting, the         *)
(* shortest-path query and the route-composition analysis, over a directed *)
(* multigraph with attributed nodes and edges.                             *)
(*                                                                         *)
(* Numbers.  A raw attribute as read from the graph file is a pair         *)
(* <<tag, v>>: <<"num", v>> parses with float(), <<"bad", 0>> is text that *)
(* float() rejects, <<"none", 0>> is an attribute that is not there.       *)
(* Derived, fractional quantities are exact rationals <<n, d>> in lowest   *)
(* terms with d > 0; <<1, 0>> is float('inf') and <<0, 0>> an attribute    *)
(* not yet written.  Floating-point rounding is not modelled.              *)
(***************************************************************************)
EXTENDS Integers, Naturals, Sequences, FiniteSets, TLC

VARIABLES pc, node_data, edge_data, optimal_path, total_cost, route_msg,
          query, route_analysis, graph_file, config, saved, budget

vars == <<pc, node_data, edge_data, optimal_path, total_cost, route_msg,
          query, route_analysis, graph_file, config, saved, budget>>

\* The run's surroundings: whether the graph artifact exists, the configured
\* START_NODE and END_NODE, the records written to the output artifact, and
\* the number of route queries still to be made.
env == <<graph_file, config, saved>>

----------------------------------------------------------------------------
(* Bounds of the explored inputs *)

NumNodes == 3
MaxKey == 1
MaxEdges == 3
MaxLen == 2
MaxNormEdges == 2
MaxElev == 2
MaxQueries == 2

(* Program constants *)

DefaultInvertedPaser == 6
DefaultPaserScore == 5
DefaultDistance == 0
DefaultElevation == 0

----------------------------------------------------------------------------
(* Exact rational arithmetic standing for Python floats *)

Abs(x) == IF x < 0 THEN -x ELSE x

RECURSIVE GCD(_, _)
GCD(a, b) == IF b = 0 THEN a ELSE GCD(b, a % b)

Rat(n, d) ==
  LET g == GCD(Abs(n), d)
  IN  IF g = 0 THEN <<n, d>> ELSE <<n \div g, d \div g>>

Zero == <<0, 1>>
One == <<1, 1>>
Inf == <<1, 0>>
Unset == <<0, 0>>

RAdd(a, b) ==
  LET l == (a[2] * b[2]) \div GCD(a[2], b[2])
  IN  Rat(a[1] * (l \div a[2]) + b[1] * (l \div b[2]), l)

RMul(a, b) == Rat(a[1] * b[1], a[2] * b[2])

RLeq(a, b) == a[1] * b[2] <= b[1] * a[2]

RLess(a, b) == a[1] * b[2] < b[1] * a[2]

RECURSIVE RSum(_)
RSum(s) == IF s = <<>> THEN Zero ELSE RAdd(Head(s), RSum(Tail(s)))

RECURSIVE ISum(_)
ISum(s) == IF s = <<>> THEN 0 ELSE Head(s) + ISum(Tail(s))

MinOf(S) == CHOOSE x \in S : \A y \in S : x <= y

MaxOf(S) == CHOOSE x \in S : \A y \in S : y <= x

Max0Unclamped(x) == x

Max0(x) == IF x > 0 THEN x ELSE 0

----------------------------------------------------------------------------
(* Attribute access: dict.get with a default, and float() with a fallback *)

Num(v) == <<"num", v>>
Bad == <<"bad", 0>>
None == <<"none", 0>>

Get(val, default) == IF val[1] = "none" THEN Num(default) ELSE val

Parses(val) == val[1] = "num"

ToFloatZero(val, fallback) == IF Parses(val) THEN val[2] ELSE 0

ToFloat(val, fallback) == IF Parses(val) THEN val[2] ELSE fallback

----------------------------------------------------------------------------
(* The graph: nodes 1..NumNodes in discovery order, edges (u, v, key) *)

Nodes == 1..NumNodes

AbsentNode == 0

Keys == 0..MaxKey

EdgeIds == {e \in Nodes \X Nodes \X Keys : e[1] # e[2]}

FirstKeyIds == {e \in EdgeIds : e[3] = 0}

RECURSIVE SubsetsUpTo(_, _)
SubsetsUpTo(S, k) ==
  IF k = 0 THEN {{}}
  ELSE LET P == SubsetsUpTo(S, k - 1)
       IN  P \cup {p \cup {x} : p \in P, x \in S}

RawEdge(LenVals, InvVals, GainVals, ScoreVals) ==
  [length : LenVals, distance : {None}, travel_time : {Num(1)},
   inverted_paser : InvVals, paser_score : ScoreVals, elevation_gain : GainVals,
   norm_paser : {Unset}, norm_elev : {Unset}, norm_dist : {Unset},
   composite_weight : {Unset}]

NoAnalysis ==
  [kind |-> "none", total_distance_m |-> 0, total_elevation_gain_m |-> 0,
   average_paser_score |-> Unset, average_composite_weight |-> Unset,
   num_segments |-> 0, num_read |-> 0]

NoNode == -1

\* Nothing routed, analysed or written yet.
Fresh ==
  /\ optimal_path = <<>>
  /\ total_cost = Unset
  /\ route_msg = "none"
  /\ query = <<AbsentNode, AbsentNode>>
  /\ route_analysis = NoAnalysis
  /\ saved = <<>>

LoadedGraph(ElevVals, Ids, MaxE, LenVals, InvVals, GainVals, ScoreVals) ==
  /\ pc = "loaded"
  /\ graph_file = "present"
  /\ node_data \in [Nodes -> ElevVals]
  /\ \E ids \in SubsetsUpTo(Ids, MaxE) :
       edge_data \in [ids -> RawEdge(LenVals, InvVals, GainVals, ScoreVals)]
  /\ config = <<NoNode, NoNode>>
  /\ Fresh

Loaded(ElevVals, Ids, MaxE, LenVals, InvVals, GainVals, ScoreVals) ==
  /\ LoadedGraph(ElevVals, Ids, MaxE, LenVals, InvVals, GainVals, ScoreVals)
  /\ budget = 1

----------------------------------------------------------------------------
(* calculate_elevation_gain *)

ElevationGainReversed(elev_u, elev_v) ==
  IF Parses(Get(elev_u, DefaultElevation)) /\ Parses(Get(elev_v, DefaultElevation))
  THEN Max0(Get(elev_u, DefaultElevation)[2] - Get(elev_v, DefaultElevation)[2])
  ELSE 0

ElevationGain(elev_u, elev_v) ==
  IF Parses(Get(elev_u, DefaultElevation)) /\ Parses(Get(elev_v, DefaultElevation))
  THEN Max0(Get(elev_v, DefaultElevation)[2] - Get(elev_u, DefaultElevation)[2])
  ELSE 0

CalculateElevationGain ==
  /\ pc = "loaded"
  /\ edge_data' = [e \in DOMAIN edge_data |->
                     [edge_data[e] EXCEPT !.elevation_gain =
                        Num(ElevationGain(node_data[e[1]], node_data[e[2]]))]]
  /\ pc' = "elev"
  /\ UNCHANGED <<node_data, optimal_path, total_cost, route_msg, query,
                 route_analysis>>
  /\ UNCHANGED <<env, budget>>

----------------------------------------------------------------------------
(* normalize_edge_attributes *)

InvertedPaserFromScore(d) ==
  IF d.inverted_paser = None
  THEN 10 - ToFloat(Get(d.paser_score, DefaultPaserScore), DefaultPaserScore)
  ELSE ToFloat(d.inverted_paser, DefaultInvertedPaser)

InvertedPaserOf(d) ==
  ToFloat(Get(d.inverted_paser, DefaultInvertedPaser), DefaultInvertedPaser)

DistanceOf(d) ==
  ToFloat(IF d.length[1] # "none" THEN d.length
          ELSE Get(d.distance, DefaultDistance), DefaultDistance)

ElevGainOf(d) == Get(d.elevation_gain, 0)[2]

PaserValues(E) == {InvertedPaserOf(E[e]) : e \in DOMAIN E}

ElevGainValues(E) == {ElevGainOf(E[e]) : e \in DOMAIN E}

DistanceValues(E) == {DistanceOf(E[e]) : e \in DOMAIN E}

MinMaxNormNoShift(value, lo, hi) ==
  IF hi > lo THEN Rat(value, hi - lo) ELSE Zero

MinMaxNormNoGuard(value, lo, hi) ==
  IF hi >= lo THEN Rat(value - lo, hi - lo) ELSE Zero

MinMaxNorm(value, lo, hi) ==
  IF hi > lo THEN Rat(value - lo, hi - lo) ELSE Zero

MaxNorm(value, hi) == IF hi > 0 THEN Rat(value, hi) ELSE Zero

Normalized(E) ==
  LET min_paser == MinOf(PaserValues(E))
      max_paser == MaxOf(PaserValues(E))
      max_elev == MaxOf(ElevGainValues(E))
      min_dist == MinOf(DistanceValues(E))
      max_dist == MaxOf(DistanceValues(E))
  IN  [e \in DOMAIN E |->
         [E[e] EXCEPT
            !.norm_paser = MinMaxNorm(InvertedPaserOf(E[e]), min_paser, max_paser),
            !.norm_elev = MaxNorm(ElevGainOf(E[e]), max_elev),
            !.norm_dist = MinMaxNorm(DistanceOf(E[e]), min_dist, max_dist)]]

NormalizeEdgeAttributes ==
  /\ pc = "elev"
  /\ IF DOMAIN edge_data = {}
     THEN /\ pc' = "raised"
          /\ UNCHANGED edge_data
     ELSE /\ pc' = "norm"
          /\ edge_data' = Normalized(edge_data)
  /\ UNCHANGED <<node_data, optimal_path, total_cost, route_msg, query,
                 route_analysis>>
  /\ UNCHANGED <<env, budget>>

----------------------------------------------------------------------------
(* calculate_composite_weights *)

ALPHA == <<611, 1000>>
BETA == <<278, 1000>>
GAMMA == <<111, 1000>>

GetRat(r) == IF r = Unset THEN Zero ELSE r

CompositeWeightUnweighted(norm_paser, norm_elev, norm_dist) ==
  RAdd(RAdd(norm_paser, norm_elev), norm_dist)

CompositeWeightMinusDist(norm_paser, norm_elev, norm_dist) ==
  RAdd(RAdd(RMul(ALPHA, norm_paser), RMul(BETA, norm_elev)),
       RMul(<<-GAMMA[1], GAMMA[2]>>, norm_dist))

CompositeWeight(norm_paser, norm_elev, norm_dist) ==
  RAdd(RAdd(RMul(ALPHA, norm_paser), RMul(BETA, norm_elev)),
       RMul(GAMMA, norm_dist))

CalculateCompositeWeights ==
  /\ pc = "norm"
  /\ edge_data' = [e \in DOMAIN edge_data |->
                     [edge_data[e] EXCEPT !.composite_weight =
                        CompositeWeight(GetRat(edge_data[e].norm_paser),
                                        GetRat(edge_data[e].norm_elev),
                                        GetRat(edge_data[e].norm_dist))]]
  /\ pc' = "weighted"
  /\ UNCHANGED <<node_data, optimal_path, total_cost, route_msg, query,
                 route_analysis>>
  /\ UNCHANGED <<env, budget>>

----------------------------------------------------------------------------
(* networkx shortest path over the MultiDiGraph, weight='composite_weight' *)

RMin(S) == CHOOSE x \in S : \A y \in S : RLeq(x, y)

RECURSIVE SortedSeq(_)
SortedSeq(S) ==
  IF S = {} THEN <<>> ELSE <<MinOf(S)>> \o SortedSeq(S \ {MinOf(S)})

ParallelEdges(E, u, v) == {e \in DOMAIN E : e[1] = u /\ e[2] = v}

HasEdge(E, u, v) == ParallelEdges(E, u, v) # {}

Succ(E, v) == {e[2] : e \in {x \in DOMAIN E : x[1] = v}}

WeightAttr(d) == IF d.composite_weight = Unset THEN One ELSE d.composite_weight

WeightFirstKey(E, u, v) ==
  WeightAttr(E[CHOOSE e \in ParallelEdges(E, u, v) :
                 \A f \in ParallelEdges(E, u, v) : e[3] <= f[3]])

Weight(E, u, v) == RMin({WeightAttr(E[e]) : e \in ParallelEdges(E, u, v)})

FringeLessFIFO(f, g) == f[2] < g[2]

FringeLess(f, g) == RLess(f[1], g[1]) \/ (f[1] = g[1] /\ f[2] < g[2])

RECURSIVE Relax(_, _, _, _, _)
Relax(E, st, v, d, nbrs) ==
  IF nbrs = <<>> \/ st.err THEN st
  ELSE LET u == Head(nbrs)
           vu_dist == RAdd(d, Weight(E, v, u))
       IN  IF u \in DOMAIN st.dist
           THEN IF RLess(vu_dist, st.dist[u])
                THEN [st EXCEPT !.err = TRUE]
                ELSE Relax(E, st, v, d, Tail(nbrs))
           ELSE IF u \notin DOMAIN st.seen \/ RLess(vu_dist, st.seen[u])
                THEN Relax(E, [st EXCEPT
                                 !.seen = (u :> vu_dist) @@ @,
                                 !.fringe = @ \cup {<<vu_dist, st.c, u>>},
                                 !.c = @ + 1,
                                 !.paths = (u :> Append(st.paths[v], u)) @@ @],
                           v, d, Tail(nbrs))
                ELSE Relax(E, st, v, d, Tail(nbrs))

RECURSIVE DijkstraLoop(_, _, _)
DijkstraLoop(E, target, st) ==
  IF st.fringe = {} \/ st.err THEN st
  ELSE LET top == CHOOSE f \in st.fringe :
                    \A g \in st.fringe : f = g \/ FringeLess(f, g)
           v == top[3]
           d == top[1]
           popped == [st EXCEPT !.fringe = @ \ {top}]
       IN  IF v \in DOMAIN st.dist
           THEN DijkstraLoop(E, target, popped)
           ELSE LET settled == [popped EXCEPT !.dist = (v :> d) @@ @]
                IN  IF v = target THEN settled
                    ELSE DijkstraLoop(E, target,
                           Relax(E, settled, v, d, SortedSeq(Succ(E, v))))

Dijkstra(E, source, target) ==
  DijkstraLoop(E, target,
    [dist |-> [x \in {} |-> Zero], seen |-> source :> Zero,
     paths |-> source :> <<source>>, fringe |-> {<<Zero, 0, source>>},
     c |-> 1, err |-> FALSE])

ShortestPath(E, source, target) ==
  IF source \notin Nodes \/ target \notin Nodes
  THEN [status |-> "NodeNotFound", path |-> <<>>, length |-> Inf]
  ELSE LET r == Dijkstra(E, source, target)
       IN  IF r.err
           THEN [status |-> "ValueError", path |-> <<>>, length |-> Inf]
           ELSE IF target \notin DOMAIN r.dist
           THEN [status |-> "NetworkXNoPath", path |-> <<>>, length |-> Inf]
           ELSE [status |-> "ok", path |-> r.paths[target],
                 length |-> r.dist[target]]

----------------------------------------------------------------------------
(* find_optimal_route *)

FindOptimalRouteUncaught(start_node, end_node) ==
  /\ pc \in {"weighted", "routed", "analyzed"}
  /\ budget > 0
  /\ budget' = budget - 1
  /\ LET r == ShortestPath(edge_data, start_node, end_node)
     IN  IF r.status = "ok"
         THEN /\ optimal_path' = r.path
              /\ total_cost' = r.length
              /\ route_msg' = "found"
              /\ pc' = "routed"
         ELSE /\ pc' = "raised"
              /\ UNCHANGED <<optimal_path, total_cost, route_msg>>
  /\ query' = <<start_node, end_node>>
  /\ route_analysis' = NoAnalysis
  /\ UNCHANGED <<node_data, edge_data, env>>

FindOptimalRoute(start_node, end_node) ==
  /\ pc \in {"weighted", "routed", "analyzed"}
  /\ budget > 0
  /\ budget' = budget - 1
  /\ LET r == ShortestPath(edge_data, start_node, end_node)
     IN  /\ optimal_path' = (IF r.status = "ok" THEN r.path ELSE <<>>)
         /\ total_cost' = (IF r.status = "ok" THEN r.length ELSE Inf)
         /\ route_msg' = (IF r.status = "ok" THEN "found"
                          ELSE IF r.status = "NetworkXNoPath" THEN "no_path"
                          ELSE "error")
  /\ query' = <<start_node, end_node>>
  /\ route_analysis' = NoAnalysis
  /\ pc' = "routed"
  /\ UNCHANGED <<node_data, edge_data, env>>

----------------------------------------------------------------------------
(* analyze_route_composition *)

Segments(path) == [i \in 1..(Len(path) - 1) |-> <<path[i], path[i + 1]>>]

FirstEdgeMissing(E, seg) ==
  HasEdge(E, seg[1], seg[2]) /\ <<seg[1], seg[2], 0>> \notin DOMAIN E

PaserScoreOf(d) ==
  ToFloat(Get(d.paser_score, DefaultPaserScore), DefaultPaserScore)

Mean(s) == RMul(RSum(s), <<1, Len(s)>>)

AnalysisOffByOne(E, path) ==
  IF Len(path) < 1 THEN [NoAnalysis EXCEPT !.kind = "empty"]
  ELSE IF \E i \in 1..(Len(path) - 1) : FirstEdgeMissing(E, Segments(path)[i])
  THEN [NoAnalysis EXCEPT !.kind = "KeyError"]
  ELSE LET Joined(seg) == HasEdge(E, seg[1], seg[2])
           segs == SelectSeq(Segments(path), Joined)
           read == [i \in 1..Len(segs) |-> E[<<segs[i][1], segs[i][2], 0>>]]
           n == Len(read)
       IN  [kind |-> "ok",
            total_distance_m |-> ISum([i \in 1..n |-> DistanceOf(read[i])]),
            total_elevation_gain_m |-> ISum([i \in 1..n |-> ElevGainOf(read[i])]),
            average_paser_score |->
              IF n > 0 THEN Rat(ISum([i \in 1..n |-> PaserScoreOf(read[i])]), n)
              ELSE <<DefaultPaserScore, 1>>,
            average_composite_weight |->
              IF n > 0 THEN Mean([i \in 1..n |-> GetRat(read[i].composite_weight)])
              ELSE Zero,
            num_segments |-> Len(path) - 1,
            num_read |-> n]

Analysis(E, path) ==
  IF Len(path) < 2 THEN [NoAnalysis EXCEPT !.kind = "empty"]
  ELSE IF \E i \in 1..(Len(path) - 1) : FirstEdgeMissing(E, Segments(path)[i])
  THEN [NoAnalysis EXCEPT !.kind = "KeyError"]
  ELSE LET Joined(seg) == HasEdge(E, seg[1], seg[2])
           segs == SelectSeq(Segments(path), Joined)
           read == [i \in 1..Len(segs) |-> E[<<segs[i][1], segs[i][2], 0>>]]
           n == Len(read)
       IN  [kind |-> "ok",
            total_distance_m |-> ISum([i \in 1..n |-> DistanceOf(read[i])]),
            total_elevation_gain_m |-> ISum([i \in 1..n |-> ElevGainOf(read[i])]),
            average_paser_score |->
              IF n > 0 THEN Rat(ISum([i \in 1..n |-> PaserScoreOf(read[i])]), n)
              ELSE <<DefaultPaserScore, 1>>,
            average_composite_weight |->
              IF n > 0 THEN Mean([i \in 1..n |-> GetRat(read[i].composite_weight)])
              ELSE Zero,
            num_segments |-> Len(path) - 1,
            num_read |-> n]

AnalyzeRouteCompositionWriteBack ==
  /\ pc = "routed"
  /\ optimal_path # <<>>
  /\ route_analysis' = Analysis(edge_data, optimal_path)
  /\ edge_data' =
       [e \in DOMAIN edge_data |->
          IF \E i \in 1..(Len(optimal_path) - 1) :
               e = <<optimal_path[i], optimal_path[i + 1], 0>>
          THEN [edge_data[e] EXCEPT !.distance = Num(DistanceOf(edge_data[e]))]
          ELSE edge_data[e]]
  /\ pc' = "analyzed"
  /\ UNCHANGED <<node_data, optimal_path, total_cost, route_msg, query>>
  /\ UNCHANGED <<env, budget>>

AnalyzeRouteComposition ==
  /\ pc = "routed"
  /\ optimal_path # <<>>
  /\ route_analysis' = Analysis(edge_data, optimal_path)
  /\ pc' = "analyzed"
  /\ UNCHANGED <<node_data, edge_data, optimal_path, total_cost, route_msg,
                 query>>
  /\ UNCHANGED <<env, budget>>

\* A caller other than optimize_cycling_route hands over the empty path of
\* a failed search.
AnalyzeEmptyPath ==
  /\ pc = "routed"
  /\ optimal_path = <<>>
  /\ route_analysis' = Analysis(edge_data, optimal_path)
  /\ pc' = "analyzed"
  /\ UNCHANGED <<node_data, edge_data, optimal_path, total_cost, route_msg,
                 query>>
  /\ UNCHANGED <<env, budget>>

----------------------------------------------------------------------------
(* optimize_cycling_route: loading, node selection, saving, error report *)

\* Before the load node_data and edge_data hold the content of the graph
\* artifact; the load hands it to the stages or raises.
LoadWithoutExistenceCheck ==
  /\ pc = "start"
  /\ pc' = (IF graph_file = "unreadable" THEN "raised" ELSE "loaded")
  /\ UNCHANGED <<node_data, edge_data, optimal_path, total_cost, route_msg,
                 query, route_analysis, env, budget>>

LoadRoadNetworkWithPaser ==
  /\ pc = "start"
  /\ pc' = (IF graph_file = "present" THEN "loaded" ELSE "raised")
  /\ UNCHANGED <<node_data, edge_data, optimal_path, total_cost, route_msg,
                 query, route_analysis, env, budget>>

\* Nodes are numbered in the order the graph lists them.
GraphNodes == [i \in 1..Cardinality(DOMAIN node_data) |-> i]

GetRouteNodesInteractive(nodes) ==
  IF Len(nodes) >= 2 THEN <<nodes[1], nodes[Len(nodes)]>>
  ELSE <<NoNode, NoNode>>

RouteBetweenSelectedNodes ==
  LET sel == GetRouteNodesInteractive(GraphNodes)
  IN  /\ sel[1] # NoNode
      /\ sel[2] # NoNode
      /\ pc = "weighted"
      /\ FindOptimalRoute(sel[1], sel[2])

InsufficientNodes ==
  LET sel == GetRouteNodesInteractive(GraphNodes)
  IN  /\ pc = "weighted"
      /\ sel[1] = NoNode \/ sel[2] = NoNode
      /\ pc' = "done"
      /\ UNCHANGED <<node_data, edge_data, optimal_path, total_cost,
                     route_msg, query, route_analysis, env, budget>>

NoRouteFoundFallsThrough ==
  /\ pc = "routed"
  /\ optimal_path = <<>>
  /\ route_analysis' = Analysis(edge_data, optimal_path)
  /\ pc' = "analyzed"
  /\ UNCHANGED <<node_data, edge_data, optimal_path, total_cost, route_msg,
                 query, env, budget>>

NoRouteFound ==
  /\ pc = "routed"
  /\ optimal_path = <<>>
  /\ pc' = "done"
  /\ UNCHANGED <<node_data, edge_data, optimal_path, total_cost, route_msg,
                 query, route_analysis, env, budget>>

RouteResults ==
  [start_node |-> query[1], end_node |-> query[2], path |-> optimal_path,
   total_cost |-> total_cost, analysis |-> route_analysis,
   alpha_paser |-> ALPHA, beta_elevation |-> BETA, gamma_distance |-> GAMMA]

\* The write itself may fail; save_route_results reports that and returns.
SaveRouteResultsEarly ==
  /\ pc = "routed"
  /\ optimal_path # <<>>
  /\ \E written \in BOOLEAN :
       saved' = (IF written THEN Append(saved, RouteResults) ELSE saved)
  /\ pc' = "saved"
  /\ UNCHANGED <<node_data, edge_data, optimal_path, total_cost, route_msg,
                 query, route_analysis, graph_file, config, budget>>

SaveRouteResults ==
  /\ pc = "analyzed"
  /\ route_analysis.kind # "KeyError"
  /\ \E written \in BOOLEAN :
       saved' = (IF written THEN Append(saved, RouteResults) ELSE saved)
  /\ pc' = "saved"
  /\ UNCHANGED <<node_data, edge_data, optimal_path, total_cost, route_msg,
                 query, route_analysis, graph_file, config, budget>>

\* The except clause of optimize_cycling_route: a stage raised.
ReportError ==
  /\ \/ pc = "raised"
     \/ pc = "analyzed" /\ route_analysis.kind = "KeyError"
  /\ pc' = "failed"
  /\ UNCHANGED <<node_data, edge_data, optimal_path, total_cost, route_msg,
                 query, route_analysis, env, budget>>

----------------------------------------------------------------------------
(* Specifications *)

\* Queries between any two nodes of the graph, and with a node it lacks.
Queries ==
  (Nodes \X Nodes) \cup {<<AbsentNode, 1>>, <<1, AbsentNode>>}

Next ==
  \/ CalculateElevationGain
  \/ NormalizeEdgeAttributes
  \/ CalculateCompositeWeights
  \/ \E q \in Queries : FindOptimalRoute(q[1], q[2])
  \/ AnalyzeRouteComposition

\* The whole pipeline over every graph of at most MaxEdges edges, each short
\* or long, on flat ground or with the last node on a hill; one ordered node
\* pair, (1, 2), may carry parallel edges under any keys.
RouteIds == FirstKeyIds \cup {e \in EdgeIds : e[1] = 1 /\ e[2] = 2}

Init ==
  /\ Loaded({Num(0), Num(MaxElev)}, RouteIds, MaxEdges,
            {Num(1), Num(MaxLen)}, {None}, {None}, {Num(DefaultPaserScore)})
  /\ \A n \in Nodes \ {NumNodes} : node_data[n] = Num(0)

Spec == Init /\ [][Next]_vars

\* Elevation derivation alone, over signed, missing and unparsable node
\* elevations and over elevation_gain values left by the graph builder.
SignedElev == {Num(x) : x \in (-1)..1} \cup {None, Bad}

InitElev ==
  Loaded(SignedElev, FirstKeyIds, MaxEdges, {Num(1)}, {None},
         {None, Num(-1)}, {Num(DefaultPaserScore)})

NextElev == CalculateElevationGain

SpecElev == InitElev /\ [][NextElev]_vars

\* Elevation derivation followed by normalisation, over varied raw channels.
\* Normalisation looks at no endpoint, so the edges join node 1 and the
\* other nodes, in either direction: every combination of gains occurs.
StarIds == {e \in FirstKeyIds : e[1] = 1 \/ e[2] = 1}

InitNorm ==
  /\ Loaded({Num(x) : x \in 0..MaxElev}, StarIds, MaxNormEdges,
            {Num(1), Num(MaxLen), Bad}, {None, Bad, Num(2)},
            {None}, {Num(DefaultPaserScore)})
  /\ node_data[1] = Num(0)

NextNorm == CalculateElevationGain \/ NormalizeEdgeAttributes

SpecNorm == InitNorm /\ [][NextNorm]_vars

\* The same graphs taken through the weighting stage.
NextWeight ==
  \/ CalculateElevationGain
  \/ NormalizeEdgeAttributes
  \/ CalculateCompositeWeights

SpecWeight == InitNorm /\ [][NextWeight]_vars

\* The whole pipeline over star graphs whose edges carry numeric or
\* unparsable length, inverted_paser and paser_score, the last node's
\* elevation being numeric or unparsable.
InitAttr ==
  /\ Loaded({Num(0), Num(1), Bad}, StarIds, MaxNormEdges, {Num(1), Bad},
            {Num(2), Bad}, {None}, {Num(8), Bad})
  /\ node_data[1] = Num(0)
  /\ \A n \in Nodes \ {1, NumNodes} : node_data[n] = Num(1)
  /\ node_data[NumNodes] # Num(0)

SpecAttr == InitAttr /\ [][Next]_vars

\* The whole pipeline over graphs as update_graph_with_paser writes them:
\* every edge has a paser_score, good or poor, and none an inverted_paser.
InitScore ==
  Loaded({Num(0)}, RouteIds, MaxNormEdges, {Num(1), Num(MaxLen)}, {None},
         {None}, {Num(2), Num(8)})

SpecScore == InitScore /\ [][Next]_vars

\* MaxQueries queries in a row on one weighted star graph, each followed or not
\* by the analysis of the path it returned, the empty path included.
InitQuery ==
  /\ LoadedGraph({Num(0)}, StarIds, MaxNormEdges, {Num(1), Num(MaxLen)},
                 {None}, {None}, {Num(DefaultPaserScore)})
  /\ budget = MaxQueries

NextQuery ==
  \/ CalculateElevationGain
  \/ NormalizeEdgeAttributes
  \/ CalculateCompositeWeights
  \/ \E q \in Queries : FindOptimalRoute(q[1], q[2])
  \/ AnalyzeRouteComposition
  \/ AnalyzeEmptyPath

SpecQuery == InitQuery /\ [][NextQuery]_vars

\* One run of optimize_cycling_route: the artifact is absent, unreadable, or
\* holds a graph of zero to NumNodes nodes, whose first node may carry a
\* self-loop; START_NODE and END_NODE are unset or set by the user.
RunIds(n) ==
  {e \in RouteIds \cup {<<1, 1, 0>>} : e[1] <= n /\ e[2] <= n}

Configs == {<<NoNode, NoNode>>, <<2, 1>>}

RunOn(MaxE) ==
  /\ pc = "start"
  /\ budget = 1
  /\ config \in Configs
  /\ Fresh
  /\ \/ /\ graph_file \in {"absent", "unreadable"}
        /\ node_data \in [{} -> {Num(0)}]
        /\ edge_data \in [{} -> RawEdge({Num(1)}, {None}, {None},
                                        {Num(DefaultPaserScore)})]
     \/ /\ graph_file = "present"
        /\ \E n \in 0..NumNodes :
             /\ node_data \in [1..n -> {Num(0), Num(MaxElev)}]
             /\ \A m \in 1..(n - 1) : node_data[m] = Num(0)
             /\ \E ids \in SubsetsUpTo(RunIds(n), MaxE) :
                  edge_data \in [ids -> RawEdge({Num(1), Num(MaxLen)}, {None},
                                               {None}, {Num(DefaultPaserScore)})]

InitRun == RunOn(MaxEdges)

NextRun ==
  \/ LoadRoadNetworkWithPaser
  \/ CalculateElevationGain
  \/ NormalizeEdgeAttributes
  \/ CalculateCompositeWeights
  \/ RouteBetweenSelectedNodes
  \/ InsufficientNodes
  \/ NoRouteFound
  \/ AnalyzeRouteComposition
  \/ SaveRouteResults
  \/ ReportError

SpecRun == InitRun /\ [][NextRun]_vars

\* The steps of a run that compute no weight, route or analysis.
LoadSelectSaveSteps ==
  \/ LoadRoadNetworkWithPaser
  \/ CalculateElevationGain
  \/ NormalizeEdgeAttributes
  \/ InsufficientNodes
  \/ NoRouteFound
  \/ SaveRouteResults
  \/ ReportError

\* The steps of CalculateCompositeWeights, RouteBetweenSelectedNodes and
\* AnalyzeRouteComposition seen from the program counter: each is enabled
\* exactly when the action is, and within NextRun only that action takes it.
ComputeStepReturns ==
  \/ pc = "norm" /\ pc' = "weighted"
  \/ /\ pc = "weighted"
     /\ GetRouteNodesInteractive(GraphNodes) # <<NoNode, NoNode>>
     /\ budget > 0
     /\ pc' = "routed"
  \/ pc = "routed" /\ optimal_path # <<>> /\ pc' = "analyzed"

\* optimize_cycling_route is one sequential function: whichever statement
\* comes next is executed, and every called function returns or raises.
\* Runs on graphs of at most MaxNormEdges edges.
InitRunFair == RunOn(MaxNormEdges)

SpecRunFair ==
  /\ InitRunFair
  /\ [][NextRun]_vars
  /\ WF_vars(LoadSelectSaveSteps)
  /\ WF_pc(ComputeStepReturns)

----------------------------------------------------------------------------
(* Reference notions the properties are stated against *)

Routed == pc \in {"routed", "analyzed"}

QueryInGraph == query[1] \in Nodes /\ query[2] \in Nodes

RPlus(a, b) == IF a = Inf \/ b = Inf THEN Inf ELSE RAdd(a, b)

\* Cheapest summed composite_weight of a directed walk s -> t of at most k
\* edges, every parallel edge being a step of its own; Inf when there is none.
RECURSIVE CheapestWithin(_, _, _, _)
CheapestWithin(E, s, t, k) ==
  IF k = 0 THEN (IF s = t THEN Zero ELSE Inf)
  ELSE RMin({CheapestWithin(E, s, t, k - 1)} \cup
            {RPlus(CheapestWithin(E, s, e[1], k - 1), E[e].composite_weight) :
               e \in {x \in DOMAIN E : x[2] = t}})

Cheapest(E, s, t) == CheapestWithin(E, s, t, NumNodes - 1)

CheapestParallel(E, u, v) ==
  CHOOSE w \in {E[e].composite_weight : e \in ParallelEdges(E, u, v)} :
    \A e \in ParallelEdges(E, u, v) : RLeq(w, E[e].composite_weight)

PathCost(E, path) ==
  RSum([i \in 1..(Len(path) - 1) |-> CheapestParallel(E, path[i], path[i + 1])])

----------------------------------------------------------------------------
\* C1: for a query between two nodes joined by a directed path,
\* find_optimal_route returns a node sequence from source to target whose
\* consecutive nodes are joined by an edge, and a total cost equal to the
\* minimum summed composite_weight over all directed source-to-target paths.
C1_OptimalRoute ==
  (Routed /\ QueryInGraph /\ Cheapest(edge_data, query[1], query[2]) # Inf)
    => /\ Len(optimal_path) >= 1
       /\ optimal_path[1] = query[1]
       /\ optimal_path[Len(optimal_path)] = query[2]
       /\ \A i \in 1..(Len(optimal_path) - 1) :
            HasEdge(edge_data, optimal_path[i], optimal_path[i + 1])
       /\ total_cost = Cheapest(edge_data, query[1], query[2])

\* A route of two segments was returned although a direct, dearer edge joins
\* source and target.
C1_Witness ==
  /\ Routed
  /\ Len(optimal_path) = 3
  /\ HasEdge(edge_data, query[1], query[2])
  /\ RLess(total_cost, CheapestParallel(edge_data, query[1], query[2]))

\* C2: the cost the solver counts for each step u -> v of the returned route
\* is the minimum composite_weight among all parallel edges (u, v, key); in
\* particular the total never exceeds the cost of any single edge joining
\* source and target directly.
C2_CheapestParallelEdge ==
  (Routed /\ route_msg = "found")
    => /\ total_cost = PathCost(edge_data, optimal_path)
       /\ \A e \in ParallelEdges(edge_data, query[1], query[2]) :
            RLeq(total_cost, edge_data[e].composite_weight)

\* A one-segment route over two parallel edges whose key-0 edge is the
\* dearer one.
C2_Witness ==
  /\ Routed
  /\ Len(optimal_path) = 2
  /\ <<query[1], query[2], 0>> \in DOMAIN edge_data
  /\ <<query[1], query[2], 1>> \in DOMAIN edge_data
  /\ RLess(edge_data[<<query[1], query[2], 1>>].composite_weight,
           edge_data[<<query[1], query[2], 0>>].composite_weight)
  /\ total_cost = edge_data[<<query[1], query[2], 1>>].composite_weight

\* C3 (as claimed): for every returned path of at least two nodes whose
\* analysis completed, the analysis read the edges the solver counted, so
\* average_composite_weight times num_segments equals the returned total cost.
C3_AnalysisMatchesCost ==
  (pc = "analyzed" /\ Len(optimal_path) >= 2 /\ route_analysis.kind = "ok")
    => RMul(route_analysis.average_composite_weight,
            <<route_analysis.num_segments, 1>>) = total_cost

\* C4: a query between two nodes of the graph with no directed path between
\* them returns normally with the empty path and cost +infinity, reported as
\* "no path".
C4_NoPathFound ==
  (QueryInGraph /\ Cheapest(edge_data, query[1], query[2]) = Inf)
    => /\ Routed
       /\ optimal_path = <<>>
       /\ total_cost = Inf
       /\ route_msg = "no_path"

\* Two distinct nodes of a graph that has edges, with no directed path
\* from the first to the second.
C4_Witness ==
  /\ Routed
  /\ QueryInGraph
  /\ query[1] # query[2]
  /\ HasEdge(edge_data, query[2], query[1])
  /\ optimal_path = <<>>
  /\ total_cost = Inf

\* C5 (as claimed): a query whose source or target is not a node of the graph
\* returns an outcome different from the NoPathFound outcome (empty path,
\* cost +infinity).
C5_InvalidNodeDistinct ==
  (Routed /\ ~QueryInGraph) => <<optimal_path, total_cost>> # <<<<>>, Inf>>

----------------------------------------------------------------------------
GainOf(e) == edge_data[e].elevation_gain

ElevOrZero(val) == IF val[1] = "num" THEN val[2] ELSE 0

\* C6: once calculate_elevation_gain has run, every edge carries a numeric
\* elevation_gain >= 0, whatever the node elevations and the value it held.
C6_GainNonNegative ==
  (pc # "loaded") =>
    \A e \in DOMAIN edge_data : GainOf(e)[1] = "num" /\ GainOf(e)[2] >= 0

\* A descending edge (negative elevation, from a higher node) was derived.
C6_Witness ==
  /\ pc = "elev"
  /\ \E e \in DOMAIN edge_data :
       /\ node_data[e[1]] = Num(1)
       /\ node_data[e[2]] = Num(-1)
       /\ GainOf(e) = Num(0)

\* C7 (as claimed): every edge gets max(0, e(v) - e(u)) with e(n) = 0 for a
\* node whose elevation is missing or unparsable.
C7_GainFromElevations ==
  (pc = "elev") =>
    \A e \in DOMAIN edge_data :
      GainOf(e)[2] = IF ElevOrZero(node_data[e[2]]) > ElevOrZero(node_data[e[1]])
                     THEN ElevOrZero(node_data[e[2]]) - ElevOrZero(node_data[e[1]])
                     ELSE 0

\* C7 (amended): every edge gets max(0, e(v) - e(u)) with e(n) = 0 for a node
\* whose elevation is missing, and gets 0 as soon as the elevation of either
\* endpoint is unparsable; forward and reverse edges get their own value.
C7_GainFromParsedElevations ==
  (pc = "elev") =>
    \A e \in DOMAIN edge_data :
      GainOf(e)[2] = IF node_data[e[1]] = Bad \/ node_data[e[2]] = Bad THEN 0
                     ELSE IF ElevOrZero(node_data[e[2]]) > ElevOrZero(node_data[e[1]])
                     THEN ElevOrZero(node_data[e[2]]) - ElevOrZero(node_data[e[1]])
                     ELSE 0

\* An edge from a node without elevation up to a node at 1 with its reverse
\* edge, and an edge leaving a node whose elevation is unparsable.
C7_Witness ==
  /\ pc = "elev"
  /\ \E e \in DOMAIN edge_data :
       /\ node_data[e[1]] = None
       /\ node_data[e[2]] = Num(1)
       /\ GainOf(e) = Num(1)
       /\ <<e[2], e[1], 0>> \in DOMAIN edge_data
       /\ GainOf(<<e[2], e[1], 0>>) = Num(0)
  /\ \E e \in DOMAIN edge_data :
       /\ node_data[e[1]] = Bad
       /\ node_data[e[2]] = Num(1)
       /\ GainOf(e) = Num(0)

----------------------------------------------------------------------------
InUnit(r) == r[2] > 0 /\ 0 <= r[1] /\ r[1] <= r[2]

Lowest(S, x) == x \in S /\ \A y \in S : x <= y

Highest(S, x) == x \in S /\ \A y \in S : y <= x

\* r = (value - lo) / (hi - lo) when hi > lo, and 0 otherwise
ScaledBetween(r, value, lo, hi) ==
  IF hi > lo THEN r[2] > 0 /\ r[1] * (hi - lo) = (value - lo) * r[2]
  ELSE r = Zero

Attains(field, r) == \E e \in DOMAIN edge_data : edge_data[e][field] = r

\* C9 (as claimed): for each channel whose raw values are not all equal, some
\* edge has normalised value exactly 0 and some edge exactly 1.
C9_ExtremesAttained ==
  (pc = "norm") =>
    /\ Cardinality(PaserValues(edge_data)) > 1
         => Attains("norm_paser", Zero) /\ Attains("norm_paser", One)
    /\ Cardinality(ElevGainValues(edge_data)) > 1
         => Attains("norm_elev", Zero) /\ Attains("norm_elev", One)
    /\ Cardinality(DistanceValues(edge_data)) > 1
         => Attains("norm_dist", Zero) /\ Attains("norm_dist", One)

\* C9 (amended): for the pavement and the distance channel, when the raw
\* values are not all equal, some edge has exactly 0 and some edge exactly 1;
\* for the elevation channel, when some gain is positive, some edge has
\* exactly 1, and an edge has exactly 0 only if its own gain is 0.
C9_ExtremesAttainedMinMax ==
  (pc = "norm") =>
    /\ Cardinality(PaserValues(edge_data)) > 1
         => Attains("norm_paser", Zero) /\ Attains("norm_paser", One)
    /\ Cardinality(DistanceValues(edge_data)) > 1
         => Attains("norm_dist", Zero) /\ Attains("norm_dist", One)
    /\ (\E e \in DOMAIN edge_data : ElevGainOf(edge_data[e]) > 0)
         => /\ Attains("norm_elev", One)
            /\ \A e \in DOMAIN edge_data :
                 edge_data[e].norm_elev = Zero <=> ElevGainOf(edge_data[e]) = 0

\* Two climbing edges of different gain: the elevation channel is not
\* degenerate, 1 is attained and 0 is not.
C9_Witness ==
  /\ pc = "norm"
  /\ Cardinality(ElevGainValues(edge_data)) > 1
  /\ Cardinality(PaserValues(edge_data)) > 1
  /\ Cardinality(DistanceValues(edge_data)) > 1
  /\ Attains("norm_elev", One)
  /\ ~Attains("norm_elev", Zero)

SingleEdge == Cardinality(DOMAIN edge_data) = 1

\* C10 (as claimed): on a graph with exactly one edge normalisation completes
\* and writes norm_paser = 0, norm_elev = 0 and norm_dist = 0.
C10_SingleEdgeAllZero ==
  (pc \in {"norm", "raised"} /\ SingleEdge) =>
    /\ pc = "norm"
    /\ \A e \in DOMAIN edge_data :
         /\ edge_data[e].norm_paser = Zero
         /\ edge_data[e].norm_elev = Zero
         /\ edge_data[e].norm_dist = Zero

\* C10 (amended): on a graph with exactly one edge normalisation completes
\* without a division by zero and writes norm_paser = 0 and norm_dist = 0;
\* norm_elev is 0 when the edge's elevation gain is 0 and 1 when it is
\* positive.
C10_SingleEdgeDegenerate ==
  (pc \in {"norm", "raised"} /\ SingleEdge) =>
    /\ pc = "norm"
    /\ \A e \in DOMAIN edge_data :
         /\ edge_data[e].norm_paser = Zero
         /\ edge_data[e].norm_dist = Zero
         /\ edge_data[e].norm_elev =
              IF ElevGainOf(edge_data[e]) > 0 THEN One ELSE Zero

\* A single climbing edge with a pavement value and a length of its own.
C10_Witness ==
  /\ pc = "norm"
  /\ SingleEdge
  /\ \A e \in DOMAIN edge_data :
       /\ ElevGainOf(edge_data[e]) > 0
       /\ edge_data[e].inverted_paser = Num(2)
       /\ edge_data[e].length = Num(MaxLen)
       /\ edge_data[e].norm_elev = One
       /\ edge_data[e].norm_paser = Zero
       /\ edge_data[e].norm_dist = Zero

----------------------------------------------------------------------------
WeightOf(e) == edge_data[e].composite_weight

\* w * 1000 = 611 * p + 278 * h + 111 * d, over rationals given as fractions
PerMille(w, p, h, d) ==
  w[1] * 1000 * p[2] * h[2] * d[2]
    = w[2] * (611 * p[1] * h[2] * d[2] + 278 * h[1] * p[2] * d[2]
              + 111 * d[1] * p[2] * h[2])

\* C11: after calculate_composite_weights every edge's composite_weight is
\* 0.611 * norm_paser + 0.278 * norm_elev + 0.111 * norm_dist, the three
\* coefficients sum to 1, and the weight lies in [0, 1]: no edge handed to
\* the solver has a negative cost.
C11_WeightIsConvexSum ==
  /\ ALPHA[1] * 1000 = 611 * ALPHA[2]
  /\ BETA[1] * 1000 = 278 * BETA[2]
  /\ GAMMA[1] * 1000 = 111 * GAMMA[2]
  /\ RAdd(RAdd(ALPHA, BETA), GAMMA) = One
  /\ (pc = "weighted") =>
       \A e \in DOMAIN edge_data :
         /\ PerMille(WeightOf(e), edge_data[e].norm_paser,
                     edge_data[e].norm_elev, edge_data[e].norm_dist)
         /\ InUnit(WeightOf(e))

\* An edge that is worst in all three channels weighs exactly 1, next to an
\* edge that is best in all three and weighs 0.
C11_Witness ==
  /\ pc = "weighted"
  /\ \E e \in DOMAIN edge_data :
       /\ edge_data[e].norm_paser = One
       /\ edge_data[e].norm_elev = One
       /\ edge_data[e].norm_dist = One
       /\ WeightOf(e) = One
  /\ \E e \in DOMAIN edge_data : WeightOf(e) = Zero

\* C12: of two edges that agree on two of the three normalised values, the
\* one with the larger third value does not get the smaller composite_weight.
C12_WeightMonotone ==
  (pc = "weighted") =>
    \A e \in DOMAIN edge_data, f \in DOMAIN edge_data :
      LET a == edge_data[e]
          b == edge_data[f]
      IN  /\ (a.norm_elev = b.norm_elev /\ a.norm_dist = b.norm_dist
                /\ RLeq(a.norm_paser, b.norm_paser))
               => RLeq(WeightOf(e), WeightOf(f))
          /\ (a.norm_paser = b.norm_paser /\ a.norm_dist = b.norm_dist
                /\ RLeq(a.norm_elev, b.norm_elev))
               => RLeq(WeightOf(e), WeightOf(f))
          /\ (a.norm_paser = b.norm_paser /\ a.norm_elev = b.norm_elev
                /\ RLeq(a.norm_dist, b.norm_dist))
               => RLeq(WeightOf(e), WeightOf(f))

\* Two edges with the same pavement and climb, one longer than the other and
\* strictly heavier.
C12_Witness ==
  /\ pc = "weighted"
  /\ \E e \in DOMAIN edge_data, f \in DOMAIN edge_data :
       /\ edge_data[e].norm_paser = edge_data[f].norm_paser
       /\ edge_data[e].norm_elev = edge_data[f].norm_elev
       /\ RLess(edge_data[e].norm_dist, edge_data[f].norm_dist)
       /\ RLess(WeightOf(e), WeightOf(f))

----------------------------------------------------------------------------
StageOrder ==
  {<<"start", "loaded">>, <<"loaded", "elev">>, <<"elev", "norm">>,
   <<"norm", "weighted">>, <<"weighted", "routed">>, <<"routed", "analyzed">>,
   <<"analyzed", "saved">>}

\* What the stage that leads to position p leaves behind when it completed
\* over the whole graph.
Completed(p) ==
  CASE p = "elev" -> \A e \in DOMAIN edge_data : GainOf(e)[1] = "num"
    [] p = "norm" -> \A e \in DOMAIN edge_data :
                       /\ edge_data[e].norm_paser # Unset
                       /\ edge_data[e].norm_elev # Unset
                       /\ edge_data[e].norm_dist # Unset
    [] p = "weighted" -> \A e \in DOMAIN edge_data : WeightOf(e) # Unset
    [] p = "routed" -> route_msg # "none"
    [] p = "analyzed" -> route_analysis.kind \in {"ok", "empty"}
    [] OTHER -> TRUE

Stopped == pc \in {"raised", "failed", "done", "saved"}

\* C13: in a run of optimize_cycling_route the stages follow one another in
\* the order load, elevation gain, normalisation, weighting, search,
\* analysis, saving; a stage starts only where the previous one completed
\* over the whole graph, and once a stage did not complete or the run
\* returned, no stage runs and nothing is written.
C13_StagesInOrder ==
  [][/\ (pc' # pc /\ pc' \notin {"raised", "failed", "done"})
         => <<pc, pc'>> \in StageOrder /\ Completed(pc)
     /\ Stopped
         => /\ pc' \in {pc, "failed"}
            /\ UNCHANGED <<node_data, edge_data, optimal_path, total_cost,
                           route_msg, query, route_analysis, saved>>]_vars

\* A run that went through all seven stages and wrote its record.
C13_Witness ==
  /\ pc = "saved"
  /\ Len(saved) = 1
  /\ saved[1].analysis.kind = "ok"
  /\ Len(saved[1].path) >= 2
  /\ \A e \in DOMAIN edge_data : WeightOf(e) # Unset

\* C14: when the graph artifact is absent the load raises, the run reports
\* the error, no later stage runs and nothing is written to the output.
C14_MissingArtifactFatal ==
  (graph_file = "absent") =>
    /\ pc \in {"start", "raised", "failed"}
    /\ saved = <<>>
    /\ route_msg = "none"
    /\ route_analysis = NoAnalysis

\* The error of the absent artifact was reported.
C14_Witness == graph_file = "absent" /\ pc = "failed" /\ saved = <<>>

\* C16 (as claimed): the route is computed between START_NODE and END_NODE
\* when they are set, between the first and the last node of the graph when
\* they are not, and not at all for a graph of fewer than two nodes.
C16_ConfiguredEndpoints ==
  Routed =>
    /\ Len(GraphNodes) >= 2
    /\ query = (IF config # <<NoNode, NoNode>> THEN config
                ELSE <<GraphNodes[1], GraphNodes[Len(GraphNodes)]>>)

----------------------------------------------------------------------------
NumberOr(val, default) == IF val[1] = "num" THEN val[2] ELSE default

InvertedOr6(e) == NumberOr(edge_data[e].inverted_paser, 6)

LengthOr0(e) == NumberOr(edge_data[e].length, 0)

ScoreOr5(e) == NumberOr(edge_data[e].paser_score, 5)

FirstEdges(path) ==
  [i \in 1..(Len(path) - 1) |-> <<path[i], path[i + 1], 0>>]

\* C15: an unparsable attribute value is never fatal: an unparsable
\* inverted_paser counts as 6 and an unparsable length as 0 in the
\* normalisation, an unparsable paser_score as 5 in the analysis, and every
\* stage still completes: all edges get their norms and a weight in [0, 1],
\* the search returns the cheapest route and the analysis its totals.
C15_UnparsableNeverFatal ==
  /\ (pc = "raised") => DOMAIN edge_data = {}
  /\ (pc \notin {"loaded", "elev", "raised"}) =>
       \A e \in DOMAIN edge_data :
         /\ \A lo \in DOMAIN edge_data, hi \in DOMAIN edge_data :
              (/\ \A f \in DOMAIN edge_data :
                     InvertedOr6(lo) <= InvertedOr6(f) /\ InvertedOr6(f) <= InvertedOr6(hi))
                => ScaledBetween(edge_data[e].norm_paser, InvertedOr6(e),
                                 InvertedOr6(lo), InvertedOr6(hi))
         /\ \A lo \in DOMAIN edge_data, hi \in DOMAIN edge_data :
              (/\ \A f \in DOMAIN edge_data :
                     LengthOr0(lo) <= LengthOr0(f) /\ LengthOr0(f) <= LengthOr0(hi))
                => ScaledBetween(edge_data[e].norm_dist, LengthOr0(e),
                                 LengthOr0(lo), LengthOr0(hi))
         /\ InUnit(edge_data[e].norm_elev)
  /\ (pc \in {"weighted", "routed", "analyzed"}) =>
       \A e \in DOMAIN edge_data : InUnit(WeightOf(e))
  /\ (Routed /\ QueryInGraph) =>
       total_cost = Cheapest(edge_data, query[1], query[2])
  /\ (pc = "analyzed" /\ Len(optimal_path) >= 2) =>
       LET read == FirstEdges(optimal_path)
           n == Len(read)
       IN  /\ route_analysis.kind = "ok"
           /\ route_analysis.num_read = n
           /\ route_analysis.total_distance_m =
                ISum([i \in 1..n |-> LengthOr0(read[i])])
           /\ route_analysis.average_paser_score[1] * n =
                ISum([i \in 1..n |-> ScoreOr5(read[i])])
                  * route_analysis.average_paser_score[2]

\* A route of two segments was analysed whose first edge has an unparsable
\* length, inverted_paser and paser_score and whose second edge has numbers.
C15_Witness ==
  /\ pc = "analyzed"
  /\ Len(optimal_path) = 3
  /\ edge_data[FirstEdges(optimal_path)[1]].length = Bad
  /\ edge_data[FirstEdges(optimal_path)[1]].inverted_paser = Bad
  /\ edge_data[FirstEdges(optimal_path)[1]].paser_score = Bad
  /\ edge_data[FirstEdges(optimal_path)[1]].norm_paser = One
  /\ edge_data[FirstEdges(optimal_path)[2]].length = Num(1)
  /\ edge_data[FirstEdges(optimal_path)[2]].inverted_paser = Num(2)
  /\ edge_data[FirstEdges(optimal_path)[2]].paser_score = Num(8)
  /\ route_analysis.total_distance_m = 1
  /\ route_analysis.average_paser_score = <<13, 2>>

----------------------------------------------------------------------------
\* The edges joining u to v whose composite_weight is the one the solver
\* counted for the step u -> v.
Traversable(u, v) ==
  {e \in ParallelEdges(edge_data, u, v) :
     WeightOf(e) = CheapestParallel(edge_data, u, v)}

\* C17 (as claimed): for every returned path of n >= 2 nodes whose analysis
\* completed, num_segments = n - 1 and there are n - 1 traversed edges, one
\* per step, such that total_distance_m is the sum of their distance,
\* total_elevation_gain_m the sum of their elevation_gain and
\* average_paser_score the mean of their paser_score.
C17_AnalysisSumsTraversedEdges ==
  (pc = "analyzed" /\ Len(optimal_path) >= 2 /\ route_analysis.kind = "ok")
    => LET n == Len(optimal_path) - 1
       IN  /\ route_analysis.num_segments = n
           /\ \E edge \in [1..n -> DOMAIN edge_data] :
                /\ \A i \in 1..n :
                     edge[i] \in Traversable(optimal_path[i], optimal_path[i + 1])
                /\ route_analysis.total_distance_m =
                     ISum([i \in 1..n |-> LengthOr0(edge[i])])
                /\ route_analysis.total_elevation_gain_m =
                     ISum([i \in 1..n |-> GainOf(edge[i])[2]])
                /\ route_analysis.average_paser_score[1] * n =
                     ISum([i \in 1..n |-> ScoreOr5(edge[i])])
                       * route_analysis.average_paser_score[2]

----------------------------------------------------------------------------
\* C18: analyze_route_composition on a path of fewer than two nodes, the
\* empty path or a single node, returns the empty analysis without an error
\* and without reading an edge.
C18_ShortPathEmptyAnalysis ==
  (pc = "analyzed" /\ Len(optimal_path) < 2)
    => /\ route_analysis.kind = "empty"
       /\ route_analysis.num_read = 0
       /\ route_analysis.num_segments = 0
       /\ route_analysis.total_distance_m = 0
       /\ route_analysis.total_elevation_gain_m = 0
       /\ route_analysis.average_paser_score = Unset
       /\ route_analysis.average_composite_weight = Unset

\* The one-node path of a query from a node to itself was analysed, in a
\* graph where an edge leaves that node.
C18_Witness ==
  /\ pc = "analyzed"
  /\ Len(optimal_path) = 1
  /\ \E e \in DOMAIN edge_data : e[1] = optimal_path[1]
  /\ route_analysis.kind = "empty"

RawAttributes(d) == <<d.length, d.distance, d.travel_time, d.paser_score>>

\* C19: once the weighting has finished, no query and no analysis changes
\* the node set, the edge set or any attribute, whatever the outcome of the
\* query; and no stage at all changes the node and edge sets or an edge's
\* length, distance, travel_time or paser_score.
C19_QueriesLeaveGraphUnchanged ==
  [][/\ (pc \in {"weighted", "routed", "analyzed"})
         => node_data' = node_data /\ edge_data' = edge_data
     /\ DOMAIN node_data' = DOMAIN node_data
     /\ DOMAIN edge_data' = DOMAIN edge_data
     /\ \A e \in DOMAIN edge_data :
          RawAttributes(edge_data'[e]) = RawAttributes(edge_data[e])]_vars

\* The last of MaxQueries queries found a route, which was analysed, the
\* graph still carrying every weight.
C19_Witness ==
  /\ budget = 0
  /\ pc = "analyzed"
  /\ route_analysis.kind = "ok"
  /\ \A e \in DOMAIN edge_data : InUnit(WeightOf(e))

----------------------------------------------------------------------------
\* The graph with every paser_score replaced by one value, normalised and
\* weighted anew.
WithScore(E, score) == [e \in DOMAIN E |-> [E[e] EXCEPT !.paser_score = score]]

Reweighted(E) ==
  [e \in DOMAIN E |->
     [Normalized(E)[e] EXCEPT !.composite_weight =
        CompositeWeight(Normalized(E)[e].norm_paser, Normalized(E)[e].norm_elev,
                        Normalized(E)[e].norm_dist)]]

RouteOn(E) ==
  LET r == ShortestPath(E, query[1], query[2])
  IN  IF r.status = "ok" THEN <<r.path, r.length>> ELSE <<<<>>, Inf>>

----------------------------------------------------------------------------
Returned == pc \in {"failed", "done", "saved"}

\* C21: a run of optimize_cycling_route calls save_route_results at most
\* once, and only after every stage completed and the search found a
\* non-empty path: with fewer than two nodes, after a stage raised, or when
\* the search found no path, it is never called; no exception escapes, and
\* the run returns.
C21_SavedOnceAfterSuccess ==
  /\ [](/\ Len(saved) <= 1
        /\ (saved # <<>>) => pc = "saved"
        /\ (pc = "saved") =>
             /\ route_msg = "found"
             /\ optimal_path # <<>>
             /\ route_analysis.kind \in {"ok", "empty"}
             /\ \A e \in DOMAIN edge_data : WeightOf(e) # Unset
             /\ \A i \in 1..Len(saved) :
                  /\ saved[i].path = optimal_path
                  /\ saved[i].total_cost = total_cost
                  /\ saved[i].analysis = route_analysis
        /\ (\/ Len(GraphNodes) < 2
            \/ pc \in {"raised", "failed"}
            \/ route_analysis.kind = "KeyError"
            \/ Routed /\ optimal_path = <<>>)
             => pc # "saved" /\ saved = <<>>)
  /\ <>Returned

\* A run whose search found no path returned without saving.
C21_Witness ==
  /\ pc = "done"
  /\ route_msg = "no_path"
  /\ total_cost = Inf
  /\ DOMAIN edge_data # {}
  /\ saved = <<>>

----------------------------------------------------------------------------
\* C22 (as claimed): for every path of at least two nodes returned by
\* find_optimal_route, analyze_route_composition completes without raising,
\* also when no edge joining two consecutive nodes has key 0, and it
\* accumulates one entry per segment: the number of averaged edges equals
\* num_segments.
C22_AnalysisNeverRaises ==
  (pc = "analyzed" /\ route_msg = "found" /\ Len(optimal_path) >= 2)
    => /\ route_analysis.kind = "ok"
       /\ route_analysis.num_segments = Len(optimal_path) - 1
       /\ route_analysis.num_read = route_analysis.num_segments

====
